---------------------------- MODULE Spec2Model ----------------------------
(***************************************************************************)
(* PanelVerse backend: the latest-releases aggregator of src/manga.js      *)
(* (getLatestManga), the title resolution of src/manga.js                  *)
(* (getEnglishTitle) and the image proxy route of src/server.js            *)
(* (GET /api/image, present twice in the file).                            *)
(*                                                                         *)
(* Four specifications share the module:                                   *)
(*   Spec       one call of getLatestManga against an arbitrary upstream   *)
(*   LiveSpec   Spec with fairness on the function's own steps only        *)
(*   ImageSpec  one GET /api/image request handled by either copy          *)
(*   TitleSpec  getEnglishTitle applied to an arbitrary manga entity       *)
(***************************************************************************)
EXTENDS Integers, Sequences, FiniteSets

VARIABLES
    pc,             \* position of the getLatestManga call
    limit,          \* its argument
    now,            \* last reading of the wall clock (ms)
    offset,         \* manga.js:96
    latestByMangaId,\* manga.js:95, a Map: sequence of [id, ch] in insertion order
    pageLen,        \* chapterData.data.length of the last page received, 0
                    \* while a page is awaited
    idx,            \* number of chapters of that page the for loop has taken
    branch,         \* branch of the for body the chapter last read in the page
                    \* scan took; "none" outside a scan
    chapterFetches, \* offsets of the /chapter fetches issued, in order
    mangaFetches,   \* ids[] lists of the /manga fetches issued, in order
    lastStatus,     \* status of the last upstream response received, 0 if none
    mangaData,      \* ids of the entities in the /manga response
    result,         \* the returned list, once returned
    error,          \* the thrown error, once thrown
    imgPc,          \* position of the GET /api/image request
    req,            \* the request: which copy of the route, and req.query.url
    upstreamFetches,\* hostnames of the upstream fetches the route issued
    upstream,       \* the upstream response, once received
    res,            \* the response sent to the caller
    manga,          \* the entity given to getEnglishTitle
    titlePc,        \* "in" before getEnglishTitle has run, "out" after
    title           \* the value getEnglishTitle returned

latestVars == <<pc, limit, now, offset, latestByMangaId, pageLen, idx, branch,
                chapterFetches, mangaFetches, lastStatus, mangaData, result,
                error>>

imageVars == <<imgPc, req, upstreamFetches, upstream, res>>
titleVars == <<manga, titlePc, title>>

vars == <<latestVars, imageVars, titleVars>>

----------------------------------------------------------------------------
(* Bounds of the model *)

MaxLimit == 3       \* limit ranges over 0..MaxLimit
MaxManga == 2       \* manga identifiers 1..MaxManga
MaxPageLen == 2     \* a chapter page holds 0..MaxPageLen chapters
MaxTick == 1        \* the clock advances at most MaxTick ms during a call

----------------------------------------------------------------------------
(* Program constants, manga.js:94-98 *)

pageSize == 100
maxPages == 5
WindowMs == 172800000       \* 1000 * 60 * 60 * 48
StartTime == 1000000000     \* Date.now() when the call starts
cutoff == StartTime - WindowMs

(* JavaScript values *)
Null == "null"              \* null / undefined
NaN == -9                   \* time value of an Invalid Date
NoPublishAt == -1           \* attributes.publishAt absent (or attributes absent)
BadPublishAt == -2          \* a publishAt string that Date cannot parse
NoId == 0                   \* a relationship without id

MangaIds == 1..MaxManga

(* new Date(publishAt): the time value, NaN when the string does not parse *)
DateOf(publishAt) == IF publishAt = BadPublishAt THEN NaN ELSE publishAt

(* Date > Date and Date < Date compare time values; with NaN both are false *)
DateGT(a, b) == a # NaN /\ b # NaN /\ a > b
DateLT(a, b) == a # NaN /\ b # NaN /\ a < b

(* ch.relationships?.find((r) => r.type === "manga"): the first such entry *)
NoRel == [type |-> "undefined", id |-> NoId]      \* find() found nothing

RECURSIVE FindManga(_)
FindManga(rels) ==
    IF rels = <<>> THEN NoRel
    ELSE IF Head(rels).type = "manga" THEN Head(rels)
    ELSE FindManga(Tail(rels))

(* mangaRel?.id, NoId when there is no entry or the entry has no id *)
MangaRelId(ch) ==
    LET mangaRel == FindManga(ch.relationships)
    IN  mangaRel.id

(* latestByMangaId.has(id), .keys(), .get(id), .size *)
MapKeys(m) == [i \in 1..Len(m) |-> m[i].id]
MapHas(m, id) == \E i \in 1..Len(m) : m[i].id = id
MapGet(m, id) == m[CHOOSE i \in 1..Len(m) : m[i].id = id].ch
MapSize(m) == Len(m)

(* The branch of the for body (manga.js:116-134) a chapter takes at time t *)
ScanBranchMutNoFuture(ch, t, m) ==
    IF ch.publishAt = NoPublishAt THEN "missing"
    ELSE IF DateLT(DateOf(ch.publishAt), cutoff) THEN "old"
    ELSE IF MangaRelId(ch) = NoId THEN "norel"
    ELSE IF MapHas(m, MangaRelId(ch)) THEN "dup"
    ELSE "insert"

ScanBranch(ch, t, m) ==
    IF ch.publishAt = NoPublishAt THEN "missing"
    ELSE IF DateGT(DateOf(ch.publishAt), t) THEN "future"
    ELSE IF DateLT(DateOf(ch.publishAt), cutoff) THEN "old"
    ELSE IF MangaRelId(ch) = NoId THEN "norel"
    ELSE IF MapHas(m, MangaRelId(ch)) THEN "dup"
    ELSE "insert"

(* latestByMangaId.set(mangaRel.id, ch) for a key not yet present *)
MapSetMutFront(m, id, ch) == <<[id |-> id, ch |-> ch]>> \o m

MapSet(m, id, ch) == Append(m, [id |-> id, ch |-> ch])

(* The chapters the upstream may send *)
MangaRel(id) == [type |-> "manga", id |-> id]
GroupRel == [type |-> "scanlation_group", id |-> 7]

PublishAts ==
    {NoPublishAt, BadPublishAt, cutoff - 1, cutoff, StartTime + 1,
     StartTime + MaxTick + 1}

Chapters ==
    {[publishAt |-> p, relationships |-> <<MangaRel(m)>>, chapter |-> "5"] :
        p \in PublishAts \ {BadPublishAt}, m \in MangaIds}
    \cup
    {[publishAt |-> cutoff, relationships |-> <<MangaRel(1)>>, chapter |-> Null]}
    \cup
    {[publishAt |-> p, relationships |-> r, chapter |-> ""] :
        p \in {BadPublishAt, StartTime},
        r \in {<<>>, <<GroupRel>>, <<GroupRel, MangaRel(1)>>,
               <<MangaRel(NoId), MangaRel(1)>>}}

NoError == [status |-> 0, text |-> ""]            \* nothing thrown

Limits == 0..MaxLimit
Statuses == {200, 404, 503}
IsOk(status) == status >= 200 /\ status <= 299      \* res.ok

Min(a, b) == IF a < b THEN a ELSE b

----------------------------------------------------------------------------
(* getEnglishTitle, manga.js:12-31 *)

MaxAlt == 2         \* an entity carries 0..MaxAlt alternate titles

Undefined == "undefined"
Locales == {"en", "ja"}
TitleValues == {"", "P", "Q"}

(* A multi-locale object: its entries in the key order they were received *)
Objs ==
    {<<>>}
    \cup {<<[k |-> k, v |-> v]>> : k \in Locales, v \in TitleValues}
    \cup {o \in {<<[k |-> k1, v |-> v1], [k |-> k2, v |-> v2]>> :
                    k1 \in Locales, k2 \in Locales,
                    v1 \in TitleValues, v2 \in TitleValues} : o[1].k # o[2].k}

(* attributes.title: absent, or an object *)
Titles ==
    {[defined |-> FALSE, entries |-> <<>>]}
    \cup {[defined |-> TRUE, entries |-> o] : o \in Objs}

(* attributes.altTitles: absent, or an array of objects *)
AltTitleLists ==
    {[defined |-> FALSE, items |-> <<>>]}
    \cup {[defined |-> TRUE, items |-> a] :
            a \in UNION {[1..n -> Objs] : n \in 0..MaxAlt}}

Entities == [title : Titles, altTitles : AltTitleLists]

(* obj[key], undefined when the object has no such key *)
Get(obj, key) ==
    IF \E i \in 1..Len(obj) : obj[i].k = key
    THEN obj[CHOOSE i \in 1..Len(obj) : obj[i].k = key].v
    ELSE Undefined

(* Object.values(obj)[0] *)
FirstValue(obj) == IF obj = <<>> THEN Undefined ELSE obj[1].v

(* JavaScript truthiness of a string or undefined *)
Truthy(v) == v # Undefined /\ v # ""

(* altTitles?.find(t => t.en): index of the first such item, 0 when none *)
FindEnAlt(items) ==
    IF \E i \in 1..Len(items) : Truthy(Get(items[i], "en"))
    THEN CHOOSE i \in 1..Len(items) :
            /\ Truthy(Get(items[i], "en"))
            /\ \A j \in 1..(i - 1) : ~Truthy(Get(items[j], "en"))
    ELSE 0

getEnglishTitle(m) ==
    LET t == m.title.entries          \* title?.x and (title || {}) read {} when absent
        alts == m.altTitles.items     \* altTitles?.x reads nothing when absent
        enAlt == FindEnAlt(alts)
        anyTitle == FirstValue(t)
    IN  IF Truthy(Get(t, "en")) THEN Get(t, "en")
        ELSE IF enAlt # 0 THEN Get(alts[enAlt], "en")
        ELSE IF Truthy(anyTitle) THEN anyTitle
        ELSE IF alts # <<>> THEN FirstValue(alts[1])   \* an object is truthy, even {}
        ELSE "Untitled"

TitleIdle ==
    /\ manga = [title |-> [defined |-> FALSE, entries |-> <<>>],
                altTitles |-> [defined |-> FALSE, items |-> <<>>]]
    /\ titlePc = "in"
    /\ title = Undefined

----------------------------------------------------------------------------
(* GET /api/image, server.js:39-94 (copy 1) and server.js:206-240 (copy 2) *)

(* String.prototype.toLowerCase on the tokens the requests are built from *)
Lower(s) ==
    CASE s = "MangaDex" -> "mangadex"
      [] s = "ORG" -> "org"
      [] s = ".PNG" -> ".png"
      [] s = ".WebP" -> ".webp"
      [] OTHER -> s

(* Hostnames as typed in the url, as their dot-separated labels *)
Hosts ==
    {<<"mangadex", "org">>, <<"uploads", "mangadex", "org">>,
     <<"MangaDex", "ORG">>, <<"cdn", "mangadex", "network">>,
     <<"mangadex", "network">>, <<"evil", "example", "com">>,
     <<"evilmangadex", "org">>, <<"mangadex", "org", "evil", "com">>}

(* The last path segment's extension as typed *)
Exts == {".png", ".PNG", ".WebP", ".gif", ".jpg", ""}

(* req.query.url: absent, an array (the parameter repeated), the empty     *)
(* string, a string new URL() rejects, or an absolute url                   *)
Urls ==
    {[kind |-> k, host |-> <<>>, ext |-> ""] :
        k \in {"undefined", "array", "empty", "relative"}}
    \cup {[kind |-> "absolute", host |-> h, ext |-> e] : h \in Hosts, e \in Exts}

(* new URL(url).hostname: the host, lower-cased by the parser *)
Hostname(url) == [i \in 1..Len(url.host) |-> Lower(url.host[i])]

(* new URL(url).pathname's extension: kept as typed *)
PathExt(url) == url.ext

(* hostname === "mangadex.org" || hostname.endsWith(".mangadex.org") *)
isMangaDexMutAllowAll(hostname) == TRUE

isMangaDex(hostname) ==
    \/ hostname = <<"mangadex", "org">>
    \/ /\ Len(hostname) > 2
       /\ SubSeq(hostname, Len(hostname) - 1, Len(hostname)) = <<"mangadex", "org">>

(* server.js:39-45, on the pathname's extension *)
guessImageType(ext) ==
    LET lower == Lower(ext)
    IN  IF lower = ".png" THEN "image/png"
        ELSE IF lower = ".webp" THEN "image/webp"
        ELSE IF lower = ".gif" THEN "image/gif"
        ELSE "image/jpeg"

(* Upstream responses *)
JpegBody == <<255, 216, 255, 224, 0, 16, 74, 70, 73, 70, 0, 1>>
PngBody == <<137, 80, 78, 71, 13, 10, 26, 10, 0, 0, 0, 13>>
HtmlBody == <<60, 104, 116, 109, 108, 62, 111, 111, 112, 115, 60, 47>>
Bodies == {JpegBody, PngBody, HtmlBody}
ContentTypes == {Null, "", "image/png", "image/jpeg", "text/html"}
Upstreams == [status : Statuses, contentType : ContentTypes, body : Bodies]

(* upstreamType.startsWith("image/") *)
StartsWithImage(t) == t \in {"image/png", "image/jpeg", "image/webp", "image/gif"}

NoUpstream == [status |-> 0, contentType |-> Null, body |-> <<>>]

NoBody == [kind |-> "none", error |-> "", data |-> <<>>]
NoResponse == [status |-> 0, contentType |-> "", cacheControl |-> "", body |-> NoBody]

(* res.status(s).json({ error: msg }) *)
JsonResponse(s, msg) ==
    [status |-> s, contentType |-> "application/json", cacheControl |-> "",
     body |-> [kind |-> "json", error |-> msg, data |-> <<>>]]

(* upstream.text() decodes the body as UTF-8 and send() encodes the string *)
(* again: a well-formed sequence comes back as it was, every ill-formed     *)
(* maximal subpart comes back as U+FFFD (EF BF BD)                          *)
(* (no body here begins with a byte order mark)                             *)
Replacement == <<239, 191, 189>>

(* Continuation bytes a lead byte asks for, 0 for ASCII and invalid leads *)
Utf8Need(x) ==
    IF x >= 194 /\ x <= 223 THEN 1
    ELSE IF x >= 224 /\ x <= 239 THEN 2
    ELSE IF x >= 240 /\ x <= 244 THEN 3
    ELSE 0

(* Range of the i-th continuation byte after lead x *)
Utf8Lo(x, i) ==
    IF i = 1 /\ x = 224 THEN 160 ELSE IF i = 1 /\ x = 240 THEN 144 ELSE 128

Utf8Hi(x, i) ==
    IF i = 1 /\ x = 237 THEN 159 ELSE IF i = 1 /\ x = 244 THEN 143 ELSE 191

(* How many continuation bytes in range follow the lead byte of b *)
Utf8Matched(b) ==
    LET x == b[1]
        inRange(i) == /\ Len(b) >= 1 + i
                      /\ b[1 + i] >= Utf8Lo(x, i)
                      /\ b[1 + i] <= Utf8Hi(x, i)
        good == {k \in 0..Utf8Need(x) : \A i \in 1..k : inRange(i)}
    IN  CHOOSE k \in good : \A j \in good : j <= k

RECURSIVE Utf8RoundTrip(_)
Utf8RoundTrip(b) ==
    IF b = <<>> THEN <<>>
    ELSE IF b[1] <= 127 THEN <<b[1]>> \o Utf8RoundTrip(Tail(b))
    ELSE LET k == Utf8Matched(b)
         IN  IF Utf8Need(b[1]) > 0 /\ k = Utf8Need(b[1])
             THEN SubSeq(b, 1, 1 + k) \o Utf8RoundTrip(SubSeq(b, 2 + k, Len(b)))
             ELSE Replacement \o Utf8RoundTrip(SubSeq(b, 2 + k, Len(b)))

(* res.status(upstream.status).send(text), server.js:75-79 and 229-231 *)
ErrorResponse(up) ==
    [status |-> up.status, contentType |-> "text/html", cacheControl |-> "",
     body |-> [kind |-> "text", error |-> "", data |-> Utf8RoundTrip(up.body)]]

(* server.js:81-84 (copy 1) and server.js:233 (copy 2) *)
ContentType(copy, up, url) ==
    IF copy = 1
    THEN IF up.contentType # Null /\ up.contentType # ""
            /\ StartsWithImage(up.contentType)
         THEN up.contentType
         ELSE guessImageType(PathExt(url))
    ELSE IF up.contentType # Null /\ up.contentType # ""
         THEN up.contentType
         ELSE "image/jpeg"

(* server.js:86-89 and 233-235: headers set, upstream body piped; the       *)
(* status stays 200                                                        *)
ImageResponse(copy, up, url) ==
    [status |-> 200, contentType |-> ContentType(copy, up, url),
     cacheControl |-> "public, max-age=86400",
     body |-> [kind |-> "stream", error |-> "", data |-> up.body]]

(* server.js:48-66 and 207-225: the checks before the fetch; NoResponse     *)
(* when the request passes them                                            *)
Rejection(url) ==
    IF url.kind \in {"undefined", "empty", "array"}
    THEN JsonResponse(400, "Missing url")
    ELSE IF url.kind = "relative" THEN JsonResponse(400, "Invalid url")
    ELSE IF ~isMangaDex(Hostname(url)) THEN JsonResponse(403, "Host not allowed")
    ELSE NoResponse

ImageIdle ==
    /\ imgPc = "idle"
    /\ req = [copy |-> 1, url |-> [kind |-> "undefined", host |-> <<>>, ext |-> ""]]
    /\ upstreamFetches = <<>>
    /\ upstream = NoUpstream
    /\ res = NoResponse

----------------------------------------------------------------------------
(* getLatestManga, manga.js:92-170 *)

LatestIdle ==
    /\ pc = "idle"
    /\ limit = 0
    /\ now = StartTime
    /\ offset = 0
    /\ latestByMangaId = <<>>
    /\ pageLen = 0
    /\ idx = 0
    /\ branch = "none"
    /\ chapterFetches = <<>>
    /\ mangaFetches = <<>>
    /\ lastStatus = 0
    /\ mangaData = {}
    /\ result = <<>>
    /\ error = NoError

Init ==
    /\ LatestIdle
    /\ ImageIdle
    /\ TitleIdle

(* manga.js:92-98: the call starts *)
Call(l) ==
    /\ pc = "idle"
    /\ pc' = "loop"
    /\ limit' = l
    /\ UNCHANGED <<imageVars, titleVars>>
    /\ UNCHANGED <<now, offset, latestByMangaId, pageLen, idx, branch,
                   chapterFetches, mangaFetches, lastStatus, mangaData, result, error>>

(* manga.js:100: the while condition *)
LoopCond(m, lim, off) == MapSize(m) < lim /\ off \div pageSize < maxPages

(* manga.js:100-107: the condition holds and the page at offset is requested *)
FetchChapterPage ==
    /\ pc = "loop"
    /\ LoopCond(latestByMangaId, limit, offset)
    /\ chapterFetches' = Append(chapterFetches, offset)
    /\ pageLen' = 0
    /\ idx' = 0
    /\ branch' = "none"
    /\ pc' = "awaitChapters"
    /\ UNCHANGED <<imageVars, titleVars>>
    /\ UNCHANGED <<limit, now, offset, latestByMangaId,
                   mangaFetches, lastStatus, mangaData, result, error>>

(* manga.js:100: the condition fails, control leaves the loop *)
LoopEnd ==
    /\ pc = "loop"
    /\ ~LoopCond(latestByMangaId, limit, offset)
    /\ branch' = "none"
    /\ pc' = "exit"
    /\ UNCHANGED <<imageVars, titleVars>>
    /\ UNCHANGED <<limit, now, offset, latestByMangaId, pageLen, idx,
                   chapterFetches, mangaFetches, lastStatus, mangaData, result, error>>

(* An await that rejects: the call throws that error, which has no status *)
RejectError == [status |-> 0, text |-> "rejected"]

(* manga.js:107: fetch rejects (no response) *)
ChapterFetchRejected ==
    /\ pc = "awaitChapters"
    /\ error' = RejectError
    /\ pc' = "failed"
    /\ UNCHANGED <<imageVars, titleVars>>
    /\ UNCHANGED <<limit, now, offset, latestByMangaId, pageLen, idx, branch,
                   chapterFetches, mangaFetches, lastStatus, mangaData, result>>

(* manga.js:108: if (!chapterRes.ok) *)
ChapterResThrows(status) == ~IsOk(status)

(* manga.js:107-113: the response arrives; its body is then awaited, as     *)
(* text (109) when the status is not ok, as JSON (113) otherwise            *)
ChapterResponded(status) ==
    /\ pc = "awaitChapters"
    /\ lastStatus' = status
    /\ pc' = IF ChapterResThrows(status) THEN "awaitChapterText" ELSE "awaitChapterJson"
    /\ UNCHANGED <<imageVars, titleVars>>
    /\ UNCHANGED <<limit, now, offset, latestByMangaId, pageLen, idx, branch,
                   chapterFetches, mangaFetches, mangaData, result, error>>

(* manga.js:109-110: the error body was read; the error with the status is thrown *)
ChapterFetchFailed(text) ==
    /\ pc = "awaitChapterText"
    /\ error' = [status |-> lastStatus, text |-> text]
    /\ pc' = "failed"
    /\ UNCHANGED <<imageVars, titleVars>>
    /\ UNCHANGED <<limit, now, offset, latestByMangaId, pageLen, idx, branch,
                   chapterFetches, mangaFetches, lastStatus, mangaData, result>>

(* manga.js:109: chapterRes.text() rejects *)
ChapterTextRejected ==
    /\ pc = "awaitChapterText"
    /\ error' = RejectError
    /\ pc' = "failed"
    /\ UNCHANGED <<imageVars, titleVars>>
    /\ UNCHANGED <<limit, now, offset, latestByMangaId, pageLen, idx, branch,
                   chapterFetches, mangaFetches, lastStatus, mangaData, result>>

(* manga.js:113: chapterRes.json() rejects (unreadable or not JSON) *)
ChapterJsonRejected ==
    /\ pc = "awaitChapterJson"
    /\ error' = RejectError
    /\ pc' = "failed"
    /\ UNCHANGED <<imageVars, titleVars>>
    /\ UNCHANGED <<limit, now, offset, latestByMangaId, pageLen, idx, branch,
                   chapterFetches, mangaFetches, lastStatus, mangaData, result>>

(* manga.js:113-114: a page of n chapters was parsed; an empty one breaks *)
ChapterPageReceived(n) ==
    /\ pc = "awaitChapterJson"
    /\ pageLen' = n
    /\ idx' = 0
    /\ branch' = "none"
    /\ pc' = IF n = 0 THEN "exit" ELSE "scan"
    /\ UNCHANGED <<imageVars, titleVars>>
    /\ UNCHANGED <<limit, now, offset, latestByMangaId, chapterFetches,
                   mangaFetches, lastStatus, mangaData, result, error>>

(* manga.js:132: the break once the working set has limit entries *)
BreakAtLimitMutNever(m, lim) == FALSE

BreakAtLimit(m, lim) == MapSize(m) >= lim

(* manga.js:116-136: the for body on the next chapter of the page, read at  *)
(* clock time t; after the last chapter or a break, offset += pageSize      *)
ExamineChapter(ch, t) ==
    /\ pc = "scan"
    /\ idx < pageLen
    /\ now' = t
    /\ idx' = idx + 1
    /\ LET b == ScanBranch(ch, t, latestByMangaId)
           m == IF b = "insert"
                THEN MapSet(latestByMangaId, MangaRelId(ch), ch)
                ELSE latestByMangaId
           stop == (b = "insert" /\ BreakAtLimit(m, limit)) \/ idx + 1 = pageLen
       IN  /\ branch' = b
           /\ latestByMangaId' = m
           /\ offset' = IF stop THEN offset + pageSize ELSE offset
           /\ pc' = IF stop THEN "loop" ELSE "scan"
    /\ UNCHANGED <<imageVars, titleVars>>
    /\ UNCHANGED <<limit, pageLen, chapterFetches, mangaFetches, lastStatus, mangaData, result, error>>

(* manga.js:139-140: nothing survived *)
ReturnEmpty ==
    /\ pc = "exit"
    /\ MapKeys(latestByMangaId) = <<>>
    /\ result' = <<>>
    /\ pc' = "done"
    /\ UNCHANGED <<imageVars, titleVars>>
    /\ UNCHANGED <<limit, now, offset, latestByMangaId, pageLen, idx, branch,
                   chapterFetches, mangaFetches, lastStatus, mangaData, error>>

(* manga.js:139-149: the single metadata request for the surviving ids *)
FetchManga ==
    /\ pc = "exit"
    /\ MapKeys(latestByMangaId) # <<>>
    /\ mangaFetches' = Append(mangaFetches, MapKeys(latestByMangaId))
    /\ pc' = "awaitManga"
    /\ UNCHANGED <<imageVars, titleVars>>
    /\ UNCHANGED <<limit, now, offset, latestByMangaId, pageLen, idx, branch,
                   chapterFetches, lastStatus, mangaData, result, error>>

(* manga.js:149: fetch rejects (no response) *)
MangaFetchRejected ==
    /\ pc = "awaitManga"
    /\ error' = RejectError
    /\ pc' = "failed"
    /\ UNCHANGED <<imageVars, titleVars>>
    /\ UNCHANGED <<limit, now, offset, latestByMangaId, pageLen, idx, branch,
                   chapterFetches, mangaFetches, lastStatus, mangaData, result>>

(* manga.js:150: if (!mangaRes.ok) *)
MangaResThrows(status) == ~IsOk(status)

(* manga.js:149-155: the response arrives; its body is then awaited, as     *)
(* text (151) when the status is not ok, as JSON (155) otherwise            *)
MangaResponded(status) ==
    /\ pc = "awaitManga"
    /\ lastStatus' = status
    /\ pc' = IF MangaResThrows(status) THEN "awaitMangaText" ELSE "awaitMangaJson"
    /\ UNCHANGED <<imageVars, titleVars>>
    /\ UNCHANGED <<limit, now, offset, latestByMangaId, pageLen, idx, branch,
                   chapterFetches, mangaFetches, mangaData, result, error>>

(* manga.js:151-152: the error body was read; the error with the status is thrown *)
MangaFetchFailed(text) ==
    /\ pc = "awaitMangaText"
    /\ error' = [status |-> lastStatus, text |-> text]
    /\ pc' = "failed"
    /\ UNCHANGED <<imageVars, titleVars>>
    /\ UNCHANGED <<limit, now, offset, latestByMangaId, pageLen, idx, branch,
                   chapterFetches, mangaFetches, lastStatus, mangaData, result>>

(* manga.js:151: mangaRes.text() rejects *)
MangaTextRejected ==
    /\ pc = "awaitMangaText"
    /\ error' = RejectError
    /\ pc' = "failed"
    /\ UNCHANGED <<imageVars, titleVars>>
    /\ UNCHANGED <<limit, now, offset, latestByMangaId, pageLen, idx, branch,
                   chapterFetches, mangaFetches, lastStatus, mangaData, result>>

(* manga.js:155: mangaRes.json() rejects *)
MangaJsonRejected ==
    /\ pc = "awaitMangaJson"
    /\ error' = RejectError
    /\ pc' = "failed"
    /\ UNCHANGED <<imageVars, titleVars>>
    /\ UNCHANGED <<limit, now, offset, latestByMangaId, pageLen, idx, branch,
                   chapterFetches, mangaFetches, lastStatus, mangaData, result>>

(* ch.attributes?.chapter || null *)
OrNull(v) == IF v = "" \/ v = Null THEN Null ELSE v

(* manga.js:163-167: one output record (the formatManga fields other than  *)
(* id do not depend on the working set and are left out)                   *)
Record(id, ch) ==
    [id |-> id, latestPublishedAt |-> ch.publishAt,
     latestChapter |-> OrNull(ch.chapter)]

(* manga.js:158-169: map over mangaIds, null where mangaMap has no entry,   *)
(* then filter(Boolean)                                                     *)
RECURSIVE JoinMutNoFilter(_, _, _)
JoinMutNoFilter(mangaIds, m, present) ==
    IF mangaIds = <<>> THEN <<>>
    ELSE <<Record(Head(mangaIds), MapGet(m, Head(mangaIds)))>>
         \o JoinMutNoFilter(Tail(mangaIds), m, present)

RECURSIVE Join(_, _, _)
Join(mangaIds, m, present) ==
    IF mangaIds = <<>> THEN <<>>
    ELSE (IF Head(mangaIds) \in present /\ MapHas(m, Head(mangaIds))
          THEN <<Record(Head(mangaIds), MapGet(m, Head(mangaIds)))>>
          ELSE <<>>) \o Join(Tail(mangaIds), m, present)

(* manga.js:155-169: the metadata was parsed, for the ids in present *)
MangaReceived(present) ==
    /\ pc = "awaitMangaJson"
    /\ mangaData' = present
    /\ result' = Join(MapKeys(latestByMangaId), latestByMangaId, present)
    /\ pc' = "done"
    /\ UNCHANGED <<imageVars, titleVars>>
    /\ UNCHANGED <<limit, now, offset, latestByMangaId, pageLen, idx, branch,
                   chapterFetches, mangaFetches, lastStatus, error>>

Next ==
    \/ \E l \in Limits : Call(l)
    \/ FetchChapterPage
    \/ LoopEnd
    \/ ChapterFetchRejected
    \/ \E s \in Statuses : ChapterResponded(s)
    \/ \E text \in {"upstream down"} : ChapterFetchFailed(text)
    \/ ChapterTextRejected
    \/ ChapterJsonRejected
    \/ \E n \in 0..MaxPageLen : ChapterPageReceived(n)
    \/ \E ch \in Chapters, t \in now..Min(now + 1, StartTime + MaxTick) :
          ExamineChapter(ch, t)
    \/ ReturnEmpty
    \/ FetchManga
    \/ MangaFetchRejected
    \/ \E s \in Statuses : MangaResponded(s)
    \/ \E text \in {"upstream down"} : MangaFetchFailed(text)
    \/ MangaTextRejected
    \/ MangaJsonRejected
    \/ \E present \in SUBSET MangaIds : MangaReceived(present)

Spec == Init /\ [][Next]_vars

(* The steps the function takes by itself, between two awaits: the loop    *)
(* head, the for body, the code after the loop                             *)
CodeStep ==
    \/ FetchChapterPage
    \/ LoopEnd
    \/ \E ch \in Chapters, t \in now..Min(now + 1, StartTime + MaxTick) :
          ExamineChapter(ch, t)
    \/ ReturnEmpty
    \/ FetchManga

(* The function runs whenever it can run; nothing makes an awaited fetch,   *)
(* text() or json() settle (manga.js:107-113, 149-155 pass no timeout and   *)
(* no abort signal), so those steps carry no fairness                       *)
LiveSpec == Spec /\ WF_vars(CodeStep)

----------------------------------------------------------------------------
(* GET /api/image: the route *)

ImageInit ==
    /\ LatestIdle
    /\ ImageIdle
    /\ TitleIdle

(* server.js:47-74 and 206-228: the request arrives; it is answered at once *)
(* or the upstream fetch is issued                                          *)
ImageRequest(copy, url) ==
    /\ imgPc = "idle"
    /\ req' = [copy |-> copy, url |-> url]
    /\ IF Rejection(url) # NoResponse
       THEN /\ res' = Rejection(url)
            /\ imgPc' = "responded"
            /\ UNCHANGED <<upstreamFetches, upstream>>
       ELSE /\ upstreamFetches' = Append(upstreamFetches, Hostname(url))
            /\ imgPc' = "awaitUpstream"
            /\ UNCHANGED <<res, upstream>>
    /\ UNCHANGED <<latestVars, titleVars>>

(* server.js:69-89 and 228-235: the upstream answers; a successful         *)
(* response is served at once, the body of an unsuccessful one is awaited   *)
(* as text first (76, 230)                                                  *)
UpstreamResponded(up) ==
    /\ imgPc = "awaitUpstream"
    /\ upstream' = up
    /\ IF ~IsOk(up.status)
       THEN /\ imgPc' = "awaitText"
            /\ UNCHANGED res
       ELSE /\ res' = ImageResponse(req.copy, up, req.url)
            /\ imgPc' = "responded"
    /\ UNCHANGED <<req, upstreamFetches>>
    /\ UNCHANGED <<latestVars, titleVars>>

(* server.js:76-78 and 230: the error body was read and is sent *)
UpstreamTextRead ==
    /\ imgPc = "awaitText"
    /\ res' = ErrorResponse(upstream)
    /\ imgPc' = "responded"
    /\ UNCHANGED <<req, upstreamFetches, upstream>>
    /\ UNCHANGED <<latestVars, titleVars>>

(* server.js:76, 230 and the catch at 90-93, 236-239: upstream.text()      *)
(* rejects                                                                 *)
UpstreamTextRejected ==
    /\ imgPc = "awaitText"
    /\ res' = JsonResponse(500, "Failed to fetch image")
    /\ imgPc' = "responded"
    /\ UNCHANGED <<req, upstreamFetches, upstream>>
    /\ UNCHANGED <<latestVars, titleVars>>

(* server.js:69-74, 228 and the catch at 90-93, 236-239: fetch rejects *)
UpstreamThrew ==
    /\ imgPc = "awaitUpstream"
    /\ res' = JsonResponse(500, "Failed to fetch image")
    /\ imgPc' = "responded"
    /\ UNCHANGED <<req, upstreamFetches, upstream>>
    /\ UNCHANGED <<latestVars, titleVars>>

ImageNext ==
    \/ \E copy \in {1, 2}, url \in Urls : ImageRequest(copy, url)
    \/ \E up \in Upstreams : UpstreamResponded(up)
    \/ UpstreamTextRead
    \/ UpstreamTextRejected
    \/ UpstreamThrew

ImageSpec == ImageInit /\ [][ImageNext]_vars

----------------------------------------------------------------------------
(* getEnglishTitle applied to an entity *)

TitleInit ==
    /\ LatestIdle
    /\ ImageIdle
    /\ manga \in Entities
    /\ titlePc = "in"
    /\ title = Undefined

ResolveTitle ==
    /\ titlePc = "in"
    /\ title' = getEnglishTitle(manga)
    /\ titlePc' = "out"
    /\ UNCHANGED <<manga, latestVars, imageVars>>

TitleNext == ResolveTitle

TitleSpec == TitleInit /\ [][TitleNext]_vars


----------------------------------------------------------------------------
(* Properties of getLatestManga *)

Terminated == pc \in {"done", "failed"}

(* C1: for limit >= 1 the working set never holds, and the call never      *)
(* returns, more than limit entries; and from the moment the working set   *)
(* holds limit entries (in particular after a break in the middle of a     *)
(* page) no further chapter-feed page is fetched.                          *)
C1_AtMostLimit ==
    /\ [](limit >= 1 =>
            /\ MapSize(latestByMangaId) <= limit
            /\ (pc = "done" => Len(result) <= limit))
    /\ [][(limit >= 1 /\ MapSize(latestByMangaId) >= limit)
            => chapterFetches' = chapterFetches]_vars

(* C1 witness: a call with limit 2 returned 2 entries after breaking out   *)
(* of a page with a chapter still unread and pages still unfetched.        *)
C1_Witness ==
    /\ pc = "done"
    /\ limit = 2
    /\ Len(result) = 2
    /\ idx < pageLen
    /\ Len(chapterFetches) < maxPages

(* C2: the working set holds at most one entry per manga identifier, each  *)
(* entry stored under the identifier of its chapter's manga; a step never  *)
(* changes or reorders the entries already there (so the first qualifying  *)
(* chapter of a manga stays), and only appends an entry for a manga that   *)
(* was not present (so the keys are in first-encounter order).             *)
C2_FirstSeenWins ==
    /\ [](\A i, j \in 1..Len(latestByMangaId) :
            /\ (latestByMangaId[i].id = latestByMangaId[j].id => i = j)
            /\ MangaRelId(latestByMangaId[i].ch) = latestByMangaId[i].id)
    /\ [][/\ Len(latestByMangaId') \in
                {Len(latestByMangaId), Len(latestByMangaId) + 1}
          /\ SubSeq(latestByMangaId', 1, Len(latestByMangaId)) = latestByMangaId
          /\ branch' = "dup" => latestByMangaId' = latestByMangaId]_vars

(* C2 witness: manga 1 then manga 2 were inserted, and a later chapter of  *)
(* an already present manga was read and left the set as it was.           *)
C2_Witness ==
    /\ branch = "dup"
    /\ limit = 3
    /\ MapKeys(latestByMangaId) = <<1, 2>>
    /\ latestByMangaId[1].ch.publishAt = StartTime + 1
    /\ latestByMangaId[2].ch.publishAt = cutoff

(* C3: every chapter in the working set has a publish timestamp that is    *)
(* present, not before the cutoff (call start minus 48 h) and not after    *)
(* the clock, and an owning manga; when it was inserted the timestamp was  *)
(* not after the clock reading of that examination.  (A timestamp string   *)
(* that does not parse as a date is none of missing, too old or future.)   *)
C3_WindowOnly ==
    /\ [](\A i \in 1..Len(latestByMangaId) :
            LET p == latestByMangaId[i].ch.publishAt
            IN  /\ p # NoPublishAt
                /\ p = BadPublishAt \/ (p >= StartTime - WindowMs /\ p <= now)
                /\ MangaRelId(latestByMangaId[i].ch) # NoId)
    /\ [][Len(latestByMangaId') > Len(latestByMangaId) =>
            LET p == latestByMangaId'[Len(latestByMangaId')].ch.publishAt
            IN  p = BadPublishAt \/ p <= now']_vars

(* C3 witness: a chapter published exactly 48 h before the call is in the  *)
(* set, one published after the call started was kept once the clock had   *)
(* passed it, and a chapter with a future timestamp has just been skipped. *)
C3_Witness ==
    /\ branch = "future"
    /\ Len(latestByMangaId) = 2
    /\ latestByMangaId[1].ch.publishAt = cutoff
    /\ latestByMangaId[2].ch.publishAt = StartTime + 1

(* C4: when a chapter-page fetch or the metadata fetch has returned a       *)
(* non-success response, the call ends failed, with an error carrying that  *)
(* upstream status code, and with no list returned.                         *)
C4_FailsWithStatus ==
    (pc \in {"done", "failed"} /\ lastStatus # 0 /\ ~IsOk(lastStatus)) =>
        /\ pc = "failed"
        /\ error.status = lastStatus
        /\ result = <<>>

(* C9: whatever the upstream does, a call terminates; the chapter fetches  *)
(* are the offsets 0, 100, 200, 300, 400 in that order, at most 5 of them;  *)
(* a fetch is issued only from the loop head, after the previous page was   *)
(* processed and was not empty, with the working set below limit; the loop  *)
(* is left only when the working set reached limit, 5 pages were fetched or *)
(* the page just received is empty, an empty page always leaves it, and no  *)
(* chapter fetch follows once it is left.                                   *)
C9_Offsets == [i \in 1..maxPages |-> (i - 1) * pageSize]

C9_AfterLoop ==
    {"exit", "awaitManga", "awaitMangaText", "awaitMangaJson", "done", "failed"}

C9_Paging ==
    /\ [](/\ Len(chapterFetches) <= maxPages
          /\ chapterFetches = SubSeq(C9_Offsets, 1, Len(chapterFetches)))
    /\ [][chapterFetches' # chapterFetches =>
            /\ pc = "loop"
            /\ MapSize(latestByMangaId) < limit
            /\ idx = pageLen
            /\ (chapterFetches = <<>> \/ pageLen > 0)]_vars
    /\ [][(pc # "exit" /\ pc' = "exit") =>
            \/ MapSize(latestByMangaId) >= limit
            \/ Len(chapterFetches) = maxPages
            \/ (pc = "awaitChapterJson" /\ pageLen' = 0)]_vars
    /\ [][(pc = "awaitChapterJson" /\ pc' # "failed" /\ pageLen' = 0) =>
            pc' = "exit"]_vars
    /\ [][(pc \in C9_AfterLoop) =>
            /\ pc' \in C9_AfterLoop
            /\ chapterFetches' = chapterFetches]_vars

C9_BoundedPaging ==
    /\ C9_Paging
    /\ (pc # "idle") ~> Terminated

(* C10: a returned list is the working set's identifiers in insertion      *)
(* order restricted to those in the metadata response, each record with    *)
(* the publish time and chapter number of the chapter stored for it.       *)
C10_Kept == {i \in 1..Len(latestByMangaId) : latestByMangaId[i].id \in mangaData}

C10_JoinInOrder ==
    pc = "done" =>
        /\ Len(result) = Cardinality(C10_Kept)
        /\ \A i \in C10_Kept :
            LET j == Cardinality({k \in C10_Kept : k <= i})
                c == latestByMangaId[i].ch.chapter
            IN  /\ result[j].id = latestByMangaId[i].id
                /\ result[j].latestPublishedAt = latestByMangaId[i].ch.publishAt
                /\ result[j].latestChapter = (IF c = "" THEN Null ELSE c)

(* C10 witness: two identifiers were found, the metadata response lacked   *)
(* the first, and the list holds the second alone.                         *)
C10_Witness ==
    /\ pc = "done"
    /\ Len(latestByMangaId) = 2
    /\ mangaData = {latestByMangaId[2].id}
    /\ Len(result) = 1
    /\ result[1].latestChapter = "5"

----------------------------------------------------------------------------
(* Properties of GET /api/image *)

(* C5: a request whose url is missing or does not parse is answered 400,   *)
(* one whose hostname is not mangadex.org or a subdomain of it is answered *)
(* 403, and in both cases no upstream fetch is ever issued.                *)
C5_Trusted ==
    {<<"mangadex", "org">>, <<"uploads", "mangadex", "org">>}

C5_NoFetchWhenRejected ==
    (imgPc # "idle" /\ (req.url.kind # "absolute"
                        \/ Hostname(req.url) \notin C5_Trusted)) =>
        /\ imgPc = "responded"
        /\ upstreamFetches = <<>>
        /\ upstream = NoUpstream
        /\ res.body.kind = "json"
        /\ res.status = (IF req.url.kind = "absolute" THEN 403 ELSE 400)

(* C5 witness: evil.example.com was answered 403. *)
C5_Witness ==
    /\ imgPc = "responded"
    /\ req.url.kind = "absolute"
    /\ req.url.host = <<"evil", "example", "com">>
    /\ res.status = 403

(* C6: an unsuccessful upstream response is answered 502, and never with   *)
(* the upstream body.                                                      *)
C6_BadGateway ==
    (imgPc = "responded" /\ upstream # NoUpstream /\ ~IsOk(upstream.status)) =>
        /\ res.status = 502
        /\ res.body.data # upstream.body

(* C7: for a url on a trusted upstream domain (mangadex.org, the image     *)
(* delivery domain mangadex.network, and their subdomains) the request is  *)
(* fetched, and a successful body that starts with a known signature is    *)
(* served with that signature's type.                                      *)
C7_TrustedDomain(h) ==
    /\ Len(h) >= 2
    /\ SubSeq(h, Len(h) - 1, Len(h)) \in
            {<<"mangadex", "org">>, <<"mangadex", "network">>}

C7_Signature(body) ==
    IF Len(body) < 12 THEN Null
    ELSE IF SubSeq(body, 1, 3) = <<255, 216, 255>> THEN "image/jpeg"
    ELSE IF SubSeq(body, 1, 4) = <<137, 80, 78, 71>> THEN "image/png"
    ELSE IF SubSeq(body, 1, 3) = <<71, 73, 70>> THEN "image/gif"
    ELSE IF SubSeq(body, 1, 4) = <<82, 73, 70, 70>>
            /\ SubSeq(body, 9, 12) = <<87, 69, 66, 80>> THEN "image/webp"
    ELSE Null

C7_MagicBytesDecide ==
    (imgPc = "responded" /\ req.url.kind = "absolute"
        /\ C7_TrustedDomain(Hostname(req.url))) =>
        /\ res.status # 403
        /\ (upstream # NoUpstream
             /\ upstream.status >= 200 /\ upstream.status <= 299
             /\ C7_Signature(upstream.body) # Null)
            => res.contentType = C7_Signature(upstream.body)

----------------------------------------------------------------------------
(* Properties of getEnglishTitle *)

(* C8: the title is the first value the precedence yields: the primary     *)
(* title's English entry, the English entry of the first alternate title   *)
(* that has one, the primary title's first value, the first alternate      *)
(* title's first value, "Untitled"; it is never undefined.                 *)
C8_Expected(m) ==
    LET t == m.title.entries
        alts == m.altTitles.items
        en == {i \in 1..Len(alts) : Truthy(Get(alts[i], "en"))}
    IN  IF Truthy(Get(t, "en")) THEN Get(t, "en")
        ELSE IF en # {} THEN Get(alts[CHOOSE i \in en : \A j \in en : i <= j], "en")
        ELSE IF t # <<>> /\ Truthy(t[1].v) THEN t[1].v
        ELSE IF alts # <<>> /\ alts[1] # <<>> THEN alts[1][1].v
        ELSE "Untitled"

C8_TitlePrecedence ==
    titlePc = "out" =>
        /\ title = C8_Expected(manga)
        /\ title # Undefined

=============================================================================
